---- MODULE Spec2Model ----
(***************************************************************************)
(* Model of insanely_fast_whisper/utils/convert_object_to_srt.py:          *)
(*   format_time            seconds -> "HH:MM:SS,mmm"                      *)
(*   convert_object_to_srt  transcript object -> SRT text                  *)
(*   process_object         convert, write the file, report                *)
(*                                                                         *)
(* Text is a sequence of one-character strings.  A number of seconds is a  *)
(* record [s, f]: s whole seconds and f the fractional part in units of    *)
(* 10^-7 second (0 .. 9999999), so that values finer than the microsecond  *)
(* resolution of datetime.timedelta can be given to format_time.           *)
(***************************************************************************)
EXTENDS Integers, Sequences, FiniteSets, TLC

VARIABLES
    seconds,        \* format_time: the argument
    fmt,            \* format_time: the returned text, or NoText before return
    data,           \* process_object: the input object
    pc,             \* process_object: the statement about to run
    chunks,         \* convert_object_to_srt: local `chunks`
    srt_content,    \* convert_object_to_srt: local list `srt_content`
    subtitle_index, \* convert_object_to_srt: local `subtitle_index`
    pos,            \* convert_object_to_srt: number of chunks the for loop consumed
    result,         \* process_object: local `srt_content`, the converter's return value
    exc,            \* the exception in flight or handled, "none" when there is none
    file,           \* the destination: [exists, content]
    file0,          \* the destination as it was when process_object was called
    handle,         \* the file object f: "none", "open" or "closed"
    out,            \* what print() wrote, in order
    log,            \* the statements of process_object that completed, in order
    escaped         \* an exception left process_object

vars == <<seconds, fmt, data, pc, chunks, srt_content, subtitle_index, pos,
          result, exc, file, file0, handle, out, log, escaped>>

procVars == <<data, pc, chunks, srt_content, subtitle_index, pos,
              result, exc, file, file0, handle, out, log, escaped>>

\* None where an object is expected, and None where a text is expected
NoneVal == [none |-> TRUE]
NoText == <<"None">>

----------------------------------------------------------------------------
(* Text helpers *)

NL == "\n"
Whitespace == {" ", NL, "\t"}

DigitChar == <<"0", "1", "2", "3", "4", "5", "6", "7", "8", "9">>

RECURSIVE ToDecimal(_)
\* str(n) for n >= 0
ToDecimal(n) ==
    IF n < 10 THEN <<DigitChar[n + 1]>>
    ELSE ToDecimal(n \div 10) \o <<DigitChar[(n % 10) + 1]>>

RECURSIVE Zeros(_)
Zeros(k) == IF k <= 0 THEN <<>> ELSE <<"0">> \o Zeros(k - 1)

\* f"{n:0wd}" for n >= 0: at least w digits, zero-filled on the left
Pad(n, w) == Zeros(w - Len(ToDecimal(n))) \o ToDecimal(n)

RECURSIVE lstrip(_)
lstrip(t) == IF t # <<>> /\ Head(t) \in Whitespace THEN lstrip(Tail(t)) ELSE t

RECURSIVE rstrip(_)
rstrip(t) ==
    IF t # <<>> /\ t[Len(t)] \in Whitespace THEN rstrip(SubSeq(t, 1, Len(t) - 1)) ELSE t

\* str.strip()
strip(t) == rstrip(lstrip(t))

RECURSIVE Join(_, _)
\* sep.join(list)
Join(sep, list) ==
    IF list = <<>> THEN <<>>
    ELSE IF Len(list) = 1 THEN list[1]
    ELSE list[1] \o sep \o Join(sep, Tail(list))

----------------------------------------------------------------------------
(* format_time *)

\* round() of a count of 10^-7 s to whole microseconds, ties to the even one
RoundHalfEven(f) ==
    LET q == f \div 10
        r == f % 10
    IN  IF r < 5 THEN q
        ELSE IF r > 5 THEN q + 1
        ELSE IF q % 2 = 0 THEN q ELSE q + 1

\* datetime.timedelta(seconds=x): rounded to the microsecond and normalised to
\* days, seconds (0 .. 86399) and microseconds (0 .. 999999)
timedeltaMutNoCarry(x) ==
    [days |-> x.s \div 86400, seconds |-> x.s % 86400, microseconds |-> RoundHalfEven(x.f)]
timedelta(x) ==
    LET us == RoundHalfEven(x.f)
        whole == x.s + (us \div 1000000)
    IN  [days |-> whole \div 86400,
         seconds |-> whole % 86400,
         microseconds |-> us % 1000000]

\* int(time.microseconds / 1000)
millisecondsMutRound(time) == (time.microseconds + 500) \div 1000
milliseconds(time) == time.microseconds \div 1000

format_time(x) ==
    LET time == timedelta(x)
        hours == time.seconds \div 3600
        remainder == time.seconds % 3600
        minutes == remainder \div 60
        secs == remainder % 60
    IN  Pad(hours, 2) \o <<":">> \o Pad(minutes, 2) \o <<":">> \o Pad(secs, 2)
            \o <<",">> \o Pad(milliseconds(time), 3)

----------------------------------------------------------------------------
(* Inputs of format_time *)

WholeInputs == {0, 5, 10, 59, 60, 3599, 3600, 3661, 36000, 86399, 86400, 90000, 450000}
FracInputs == {0, 4, 5, 6, 15, 25, 78125, 1999999, 2500000, 5000000,
               9994000, 9996000, 9999994, 9999995, 9999996}
TimeInputs == [s : WholeInputs, f : FracInputs]

ProcIdle ==
    /\ data = NoneVal /\ pc = "idle" /\ chunks = <<>> /\ srt_content = <<>>
    /\ subtitle_index = 0 /\ pos = 0 /\ result = NoText /\ exc = "none"
    /\ file = NoneVal /\ file0 = NoneVal /\ handle = "none" /\ out = <<>>
    /\ log = <<>> /\ escaped = FALSE

InitFmt ==
    /\ seconds \in TimeInputs
    /\ fmt = NoText
    /\ ProcIdle

FormatTime ==
    /\ fmt = NoText
    /\ seconds # NoneVal
    /\ fmt' = format_time(seconds)
    /\ UNCHANGED <<seconds, procVars>>

NextFmt == FormatTime

SpecFmt == InitFmt /\ [][NextFmt]_vars

----------------------------------------------------------------------------
(* convert_object_to_srt: one chunk *)

IsNumber(v) == "s" \in DOMAIN v

\* What evaluating lines 45-47 on a chunk raises, "none" when nothing
ChunkErrorMutDefaultText(chunk) ==
    IF "timestamp" \notin DOMAIN chunk THEN "KeyError"
    ELSE IF Len(chunk.timestamp) < 1 THEN "IndexError"
    ELSE IF ~IsNumber(chunk.timestamp[1]) THEN "TypeError"
    ELSE IF Len(chunk.timestamp) < 2 THEN "IndexError"
    ELSE IF ~IsNumber(chunk.timestamp[2]) THEN "TypeError"
    ELSE "none"
ChunkErrorMutDefaultEnd(chunk) ==
    IF "timestamp" \notin DOMAIN chunk THEN "KeyError"
    ELSE IF Len(chunk.timestamp) < 1 THEN "IndexError"
    ELSE IF ~IsNumber(chunk.timestamp[1]) THEN "TypeError"
    ELSE IF "text" \notin DOMAIN chunk THEN "KeyError"
    ELSE "none"
ChunkError(chunk) ==
    IF "timestamp" \notin DOMAIN chunk THEN "KeyError"
    ELSE IF Len(chunk.timestamp) < 1 THEN "IndexError"
    ELSE IF ~IsNumber(chunk.timestamp[1]) THEN "TypeError"
    ELSE IF Len(chunk.timestamp) < 2 THEN "IndexError"
    ELSE IF ~IsNumber(chunk.timestamp[2]) THEN "TypeError"
    ELSE IF "text" \notin DOMAIN chunk THEN "KeyError"
    ELSE "none"

Arrow == <<" ", "-", "-", ">", " ">>

\* chunk["timestamp"][1] and chunk["text"] as total lookups; the defaults are never
\* taken when ChunkError(chunk) is "none"
EndOf(chunk) ==
    IF Len(chunk.timestamp) >= 2 /\ IsNumber(chunk.timestamp[2])
    THEN chunk.timestamp[2] ELSE chunk.timestamp[1]
TextOf(chunk) == IF "text" \in DOMAIN chunk THEN chunk.text ELSE <<>>

\* f"{subtitle_index}\n{start_time} --> {end_time}\n{text}\n"
BlockMutNoNewline(index, chunk) ==
    ToDecimal(index) \o <<NL>>
        \o format_time(chunk.timestamp[1]) \o Arrow \o format_time(EndOf(chunk)) \o <<NL>>
        \o strip(TextOf(chunk))
Block(index, chunk) ==
    ToDecimal(index) \o <<NL>>
        \o format_time(chunk.timestamp[1]) \o Arrow \o format_time(EndOf(chunk)) \o <<NL>>
        \o strip(TextOf(chunk)) \o <<NL>>

\* subtitle_index += 1
NextIndexMutStuck(index) == index
NextIndex(index) == index + 1

\* "\n".join(srt_content)
JoinBlocksMutTrailing(list) == Join(<<NL>>, list) \o <<NL>>
JoinBlocks(list) == Join(<<NL>>, list)

----------------------------------------------------------------------------
(* process_object: the order of its statements and its handler *)

\* The statement that follows `stmt` in the try block
AfterMutReportInsideWith(stmt) ==
    CASE stmt = "convert" -> "open"
      [] stmt = "open" -> "write"
      [] stmt = "write" -> "report"
      [] stmt = "report" -> "close"
      [] stmt = "close" -> "done"
After(stmt) ==
    CASE stmt = "convert" -> "open"
      [] stmt = "open" -> "write"
      [] stmt = "write" -> "close"
      [] stmt = "close" -> "report"
      [] stmt = "report" -> "done"

\* except Exception
CatchesMutKeyErrorOnly(e) == e = "KeyError"
Catches(e) == e \in {"KeyError", "IndexError", "TypeError", "OSError"}

SuccessMsg == [kind |-> "success", exc |-> "none"]
ErrorMsg(e) == [kind |-> "error", exc |-> e]

----------------------------------------------------------------------------
(* Inputs of process_object *)

MaxChunks == 3

Num(s, f) == [s |-> s, f |-> f]
NotANumber == [type |-> "NoneType"]

T_a == <<"a">>
T_padded == <<" ", "a", NL, "b", " ", NL>>
T_blank == <<" ", "\t">>

ChunkInputs ==
    { [timestamp |-> <<Num(0, 0), Num(5, 5000000)>>, text |-> T_a],
      [timestamp |-> <<Num(59, 9999996), Num(3661, 2500000)>>, text |-> T_padded],
      [timestamp |-> <<Num(6, 0), Num(10, 1999999)>>, text |-> T_blank],
      [text |-> T_a],
      [timestamp |-> <<Num(0, 0), Num(5, 5000000)>>],
      [timestamp |-> <<>>, text |-> T_a],
      [timestamp |-> <<Num(0, 0)>>, text |-> T_a],
      [timestamp |-> <<Num(0, 0), NotANumber>>, text |-> T_a],
      [timestamp |-> <<Num(0, 0), Num(5, 5000000), Num(9, 0)>>, text |-> T_a],
      [timestamp |-> <<Num(6, 0), Num(10, 1999999), NotANumber>>, text |-> T_blank] }

RECURSIVE SeqsUpTo(_, _)
SeqsUpTo(S, n) ==
    IF n = 0 THEN {<<>>}
    ELSE LET shorter == SeqsUpTo(S, n - 1)
         IN  shorter \cup {Append(q, x) : q \in {r \in shorter : Len(r) = n - 1}, x \in S}

ChunkLists == SeqsUpTo(ChunkInputs, MaxChunks)

DataInputs ==
    {[chunks |-> cs, speakers |-> sp] : cs \in ChunkLists, sp \in {<<>>, <<"SPEAKER_00">>}}
        \cup {[chunks |-> cs] : cs \in ChunkLists}
        \cup {[speakers |-> <<>>], [speakers |-> <<"SPEAKER_00">>]}

Absent == [exists |-> FALSE, content |-> <<>>]
FileInputs == {Absent, [exists |-> TRUE, content |-> <<"o", "l", "d">>]}

Init ==
    /\ seconds = NoneVal /\ fmt = NoText
    /\ data \in DataInputs
    /\ file0 \in FileInputs
    /\ file = file0
    /\ pc = "convert"
    /\ chunks = <<>> /\ srt_content = <<>> /\ subtitle_index = 0 /\ pos = 0
    /\ result = NoText /\ exc = "none" /\ handle = "none"
    /\ out = <<>> /\ log = <<>> /\ escaped = FALSE

Raise(e) == exc' = e /\ pc' = "except"

\* line 73 enters convert_object_to_srt: lines 40-42
ConvertEnter ==
    /\ pc = "convert"
    /\ IF "chunks" \in DOMAIN data
       THEN /\ chunks' = data.chunks
            /\ srt_content' = <<>>
            /\ subtitle_index' = 1
            /\ pos' = 0
            /\ pc' = "loop"
            /\ UNCHANGED exc
       ELSE /\ Raise("KeyError")
            /\ UNCHANGED <<chunks, srt_content, subtitle_index, pos>>
    /\ UNCHANGED <<seconds, fmt, data, result, file, file0, handle, out, log, escaped>>

\* one iteration of the for loop, lines 44-50
ConvertChunk ==
    /\ pc = "loop"
    /\ pos < Len(chunks)
    /\ LET chunk == chunks[pos + 1]
       IN  IF ChunkError(chunk) = "none"
           THEN /\ srt_content' = Append(srt_content, Block(subtitle_index, chunk))
                /\ subtitle_index' = NextIndex(subtitle_index)
                /\ pos' = pos + 1
                /\ UNCHANGED <<pc, exc>>
           ELSE /\ Raise(ChunkError(chunk))
                /\ UNCHANGED <<srt_content, subtitle_index, pos>>
    /\ UNCHANGED <<seconds, fmt, data, chunks, result, file, file0, handle, out, log, escaped>>

\* line 52, and the assignment of line 73
ConvertReturn ==
    /\ pc = "loop"
    /\ pos = Len(chunks)
    /\ result' = JoinBlocks(srt_content)
    /\ log' = Append(log, "convert")
    /\ pc' = After("convert")
    /\ UNCHANGED <<seconds, fmt, data, chunks, srt_content, subtitle_index, pos,
                   exc, file, file0, handle, out, escaped>>

\* line 75: open(output_path, 'w', encoding='utf-8') creates or truncates, or fails
Open ==
    /\ pc = "open"
    /\ \E ok \in BOOLEAN :
        IF ok
        THEN /\ file' = [exists |-> TRUE, content |-> <<>>]
             /\ handle' = "open"
             /\ log' = Append(log, "open")
             /\ pc' = After("open")
             /\ UNCHANGED exc
        ELSE /\ Raise("OSError")
             /\ UNCHANGED <<file, handle, log>>
    /\ UNCHANGED <<seconds, fmt, data, chunks, srt_content, subtitle_index, pos,
                   result, file0, out, escaped>>

\* line 76: f.write(srt_content); on failure the with statement closes f and the
\* file holds none or only a part of the text
Write ==
    /\ pc = "write"
    /\ \E ok \in BOOLEAN :
        IF ok
        THEN /\ file' = [file EXCEPT !.content = result]
             /\ log' = Append(log, "write")
             /\ pc' = After("write")
             /\ UNCHANGED <<exc, handle>>
        ELSE /\ \E n \in {0, Len(result) \div 2} :
                    file' = [file EXCEPT !.content = SubSeq(result, 1, n)]
             /\ handle' = "closed"
             /\ Raise("OSError")
             /\ UNCHANGED log
    /\ UNCHANGED <<seconds, fmt, data, chunks, srt_content, subtitle_index, pos,
                   result, file0, out, escaped>>

\* leaving the with block: f.__exit__ closes the file, or fails doing so
Close ==
    /\ pc = "close"
    /\ handle' = "closed"
    /\ \E ok \in BOOLEAN :
        IF ok
        THEN /\ log' = Append(log, "close")
             /\ pc' = After("close")
             /\ UNCHANGED exc
        ELSE /\ Raise("OSError")
             /\ UNCHANGED log
    /\ UNCHANGED <<seconds, fmt, data, chunks, srt_content, subtitle_index, pos,
                   result, file, file0, out, escaped>>

\* line 77
ReportSuccess ==
    /\ pc = "report"
    /\ out' = Append(out, SuccessMsg)
    /\ log' = Append(log, "report")
    /\ pc' = After("report")
    /\ UNCHANGED <<seconds, fmt, data, chunks, srt_content, subtitle_index, pos,
                   result, exc, file, file0, handle, escaped>>

\* lines 78-79
Except ==
    /\ pc = "except"
    /\ IF Catches(exc)
       THEN out' = Append(out, ErrorMsg(exc)) /\ UNCHANGED escaped
       ELSE escaped' = TRUE /\ UNCHANGED out
    /\ pc' = "done"
    /\ UNCHANGED <<seconds, fmt, data, chunks, srt_content, subtitle_index, pos,
                   result, exc, file, file0, handle, log>>

Next ==
    \/ ConvertEnter
    \/ ConvertChunk
    \/ ConvertReturn
    \/ Open
    \/ Write
    \/ Close
    \/ ReportSuccess
    \/ Except

Spec == Init /\ [][Next]_vars

----------------------------------------------------------------------------
(* Reading a rendered time back: the fields are what the separators delimit *)

DigitVal(c) == CHOOSE d \in 0..9 : DigitChar[d + 1] = c

RECURSIVE ParseNat(_)
ParseNat(t) ==
    IF t = <<>> THEN 0
    ELSE 10 * ParseNat(SubSeq(t, 1, Len(t) - 1)) + DigitVal(t[Len(t)])

IsDigits(t) == t # <<>> /\ \A i \in 1..Len(t) : \E d \in 1..10 : DigitChar[d] = t[i]

Places(t, c) == {i \in 1..Len(t) : t[i] = c}
Colon1(t) == CHOOSE i \in Places(t, ":") : \A j \in Places(t, ":") : i <= j
Colon2(t) == CHOOSE i \in Places(t, ":") : \A j \in Places(t, ":") : j <= i
Comma(t) == CHOOSE i \in Places(t, ",") : TRUE

WellShaped(t) == Cardinality(Places(t, ":")) = 2 /\ Cardinality(Places(t, ",")) = 1
                    /\ Colon2(t) < Comma(t)
FieldHH(t) == SubSeq(t, 1, Colon1(t) - 1)
FieldMM(t) == SubSeq(t, Colon1(t) + 1, Colon2(t) - 1)
FieldSS(t) == SubSeq(t, Colon2(t) + 1, Comma(t) - 1)
FieldMs(t) == SubSeq(t, Comma(t) + 1, Len(t))

Returned == fmt # NoText

\* The argument rounded to the nearest microsecond: whole seconds and microseconds
RoundedWhole(x) == x.s + (RoundHalfEven(x.f) \div 1000000)
RoundedMicro(x) == RoundHalfEven(x.f) % 1000000

\* C4: the HH field is the total number of whole hours of the input (carry of a
\* fraction that rounds to a full second included), with no wraparound at 24 hours.
C4_HoursUnbounded ==
    Returned => /\ WellShaped(fmt)
                /\ IsDigits(FieldHH(fmt))
                /\ ParseNat(FieldHH(fmt)) = RoundedWhole(seconds) \div 3600

\* C5 as stated: mmm is the floor of the fractional part times 1000 and MM, SS are
\* those of the integer part of the input, so nothing is rounded up across a boundary.
C5_TruncatesInput ==
    Returned => /\ ParseNat(FieldMs(fmt)) = seconds.f \div 10000
                /\ ParseNat(FieldSS(fmt)) = seconds.s % 60
                /\ ParseNat(FieldMM(fmt)) = (seconds.s \div 60) % 60

\* C5 amended: the input is first rounded to the nearest microsecond (ties to even);
\* mmm is the floor of that value's microseconds divided by 1000 and MM, SS are those
\* of that value's integer part.
C5_TruncatesRoundedMicroseconds ==
    Returned => /\ WellShaped(fmt)
                /\ ParseNat(FieldMs(fmt)) * 1000 <= RoundedMicro(seconds)
                /\ RoundedMicro(seconds) < ParseNat(FieldMs(fmt)) * 1000 + 1000
                /\ ParseNat(FieldSS(fmt)) = RoundedWhole(seconds) % 60
                /\ ParseNat(FieldMM(fmt)) = (RoundedWhole(seconds) \div 60) % 60

\* 10.1999999 s is rounded up to 10.200000 s and renders 200 ms, not 199
C5_Witness ==
    /\ seconds = [s |-> 10, f |-> 1999999]
    /\ fmt = <<"0","0",":","0","0",":","1","0",",","2","0","0">>

\* C6: MM and SS are two digits within 0..59 and mmm is three digits within 0..999;
\* a fraction that reaches a full second is carried into SS, MM and HH.
C6_FieldsInRange ==
    Returned => /\ WellShaped(fmt)
                /\ IsDigits(FieldMM(fmt)) /\ Len(FieldMM(fmt)) = 2
                /\ IsDigits(FieldSS(fmt)) /\ Len(FieldSS(fmt)) = 2
                /\ IsDigits(FieldMs(fmt)) /\ Len(FieldMs(fmt)) = 3
                /\ ParseNat(FieldMM(fmt)) \in 0..59
                /\ ParseNat(FieldSS(fmt)) \in 0..59
                /\ ParseNat(FieldMs(fmt)) \in 0..999
                /\ (RoundHalfEven(seconds.f) = 1000000 =>
                        /\ ParseNat(FieldMs(fmt)) = 0
                        /\ ParseNat(FieldSS(fmt)) = (seconds.s + 1) % 60)

\* 59.9999996 s: the fraction reaches a full second and is carried into the minute
C6_Witness ==
    /\ seconds = [s |-> 59, f |-> 9999996]
    /\ fmt = <<"0","0",":","0","1",":","0","0",",","0","0","0">>


----------------------------------------------------------------------------
(* Claims about convert_object_to_srt and process_object *)

Completed(stmt) == \E i \in 1..Len(log) : log[i] = stmt
Converted == Completed("convert")
HasChunks == "chunks" \in DOMAIN data
InputChunks == IF HasChunks THEN data.chunks ELSE <<>>
Reported(kind) == \E i \in 1..Len(out) : out[i].kind = kind

WellFormed(c) ==
    /\ "timestamp" \in DOMAIN c /\ "text" \in DOMAIN c
    /\ Len(c.timestamp) = 2
    /\ IsNumber(c.timestamp[1]) /\ IsNumber(c.timestamp[2])

\* The block the format of section 6 prescribes for the k-th chunk
ExpectedBlock(k) ==
    LET c == InputChunks[k]
    IN  ToDecimal(k) \o <<NL>>
            \o format_time(c.timestamp[1]) \o Arrow \o format_time(c.timestamp[2]) \o <<NL>>
            \o strip(c.text) \o <<NL>>

RECURSIVE SumLen(_, _)
\* total length of the first n texts of a list
SumLen(list, n) == IF n = 0 THEN 0 ELSE SumLen(list, n - 1) + Len(list[n])

\* where the k-th of the blocks in `list` starts in their join
OffsetIn(list, k) == SumLen(list, k - 1) + (k - 1) + 1

Slice(t, from, n) == SubSeq(t, from, from + n - 1)

ArrowPlaces(t) == {i \in 1..Len(t) : i + 4 <= Len(t) /\ Slice(t, i, 5) = Arrow}
Count(t, c) == Cardinality(Places(t, c))

\* C1: with N well-formed chunks the output holds N blocks, the k-th carrying index k
\* and the timestamps and text of the k-th chunk, in input order.
C1_OneBlockPerChunk ==
    (Converted /\ \A i \in 1..Len(InputChunks) : WellFormed(InputChunks[i])) =>
        LET N == Len(InputChunks)
            expected == [k \in 1..N |-> ExpectedBlock(k)]
        IN  /\ Len(srt_content) = N
            /\ Cardinality(ArrowPlaces(result)) = N
            /\ \A k \in 1..N :
                /\ srt_content[k] = expected[k]
                /\ Slice(result, OffsetIn(expected, k), Len(expected[k])) = expected[k]

\* three different well-formed chunks, converted
C1_Witness ==
    /\ Converted
    /\ Len(InputChunks) = 3
    /\ \A i \in 1..Len(InputChunks) : WellFormed(InputChunks[i])
    /\ Cardinality({InputChunks[i] : i \in 1..3}) = 3
    /\ subtitle_index = 4

MissingField ==
    \/ ~HasChunks
    \/ \E i \in 1..Len(InputChunks) :
            "timestamp" \notin DOMAIN InputChunks[i] \/ "text" \notin DOMAIN InputChunks[i]

\* C2: when `chunks`, or a chunk's `timestamp` or `text`, is missing, the conversion
\* returns nothing and the destination is never opened: it keeps its previous content.
C2_MissingFieldNoFile ==
    MissingField =>
        /\ ~Converted /\ result = NoText
        /\ ~Completed("open") /\ handle = "none"
        /\ file = file0
        /\ ~Reported("success")
        /\ (pc = "done" => exc # "none")

\* the middle chunk lacks `text` after a first block was built; the old file is intact
C2_Witness ==
    /\ pc = "done"
    /\ Len(InputChunks) = 3
    /\ WellFormed(InputChunks[1]) /\ WellFormed(InputChunks[3])
    /\ "text" \notin DOMAIN InputChunks[2]
    /\ Len(srt_content) = 1
    /\ file0.exists /\ file = file0
    /\ exc = "KeyError"

\* C3: no failure leaves process_object: the call ends normally, and a failure of the
\* conversion or of the file is reported as a diagnostic message.
C3_NoFailureEscapes ==
    /\ ~escaped
    /\ (pc = "done" /\ exc # "none" => out = <<ErrorMsg(exc)>>)

C3_Witness ==
    /\ pc = "done"
    /\ exc = "OSError"
    /\ log = <<"convert", "open">>
    /\ out = <<ErrorMsg("OSError")>>

BadTimestamp(c) ==
    /\ "timestamp" \in DOMAIN c
    /\ \/ Len(c.timestamp) # 2
       \/ \E j \in 1..Len(c.timestamp) : ~IsNumber(c.timestamp[j])

ShortOrNonNumeric(c) ==
    /\ "timestamp" \in DOMAIN c
    /\ \/ Len(c.timestamp) < 2
       \/ ~IsNumber(c.timestamp[1])
       \/ ~IsNumber(c.timestamp[2])

Usable(c) ==
    /\ "timestamp" \in DOMAIN c /\ "text" \in DOMAIN c
    /\ Len(c.timestamp) >= 2
    /\ IsNumber(c.timestamp[1]) /\ IsNumber(c.timestamp[2])

C8_BlockLayout ==
    (Converted /\ Len(InputChunks) >= 1) =>
        LET N == Len(srt_content)
        IN  /\ N = Len(InputChunks)
            /\ \A k \in 1..N :
                LET b == srt_content[k]
                    c == InputChunks[k]
                    at == OffsetIn(srt_content, k)
                    tail == Len(strip(c.text)) + 1
                IN  /\ Slice(result, at, Len(b)) = b
                    /\ Count(b, NL) = 3 + Count(strip(c.text), NL)
                    /\ Slice(b, Len(b) - tail + 1, tail) = strip(c.text) \o <<NL>>
                    /\ b[Len(b) - tail] = NL
                    /\ Cardinality(ArrowPlaces(Slice(b, 1, Len(b) - tail))) = 1
                    /\ Count(Slice(b, 1, Len(b) - tail), NL) = 2
                    /\ IsDigits(Slice(b, 1, Colon1(b) - 4))
                    /\ b[Colon1(b) - 3] = NL
                    /\ k < N => /\ result[at + Len(b)] = NL
                                /\ result[at + Len(b) + 1] # NL
            /\ Len(result) = SumLen(srt_content, N) + (N - 1)
            /\ result[Len(result)] = NL

\* two blocks, the first with inner newline kept, the second with text that trims to nothing
C8_Witness ==
    /\ Converted
    /\ Len(InputChunks) = 2
    /\ InputChunks[1].text = T_padded
    /\ InputChunks[2].text = T_blank
    /\ Count(result, NL) = 8

\* C9: an empty `chunks` gives the empty text, whatever `speakers` is.
C9_EmptyChunksEmptyText ==
    (Converted /\ InputChunks = <<>>) =>
        /\ result = <<>>
        /\ (Completed("write") => file.content = <<>>)

C9_Witness ==
    /\ Converted
    /\ HasChunks /\ InputChunks = <<>>
    /\ "speakers" \in DOMAIN data /\ data.speakers # <<>>
    /\ Completed("write")

IsPrefix(p, t) == Len(p) <= Len(t) /\ SubSeq(t, 1, Len(p)) = p

\* C10: one outcome per call; the steps run in the order convert, open, write, close,
\* report; success is reported only after the whole text is written and the file is
\* closed, and a failure at any step gives the error message and no success message.
C10_OneOutcomeInOrder ==
    /\ Len(out) <= 1
    /\ IsPrefix(log, <<"convert", "open", "write", "close", "report">>)
    /\ (pc = "done" => Len(out) = 1)
    /\ Reported("success") =>
            /\ exc = "none"
            /\ log = <<"convert", "open", "write", "close", "report">>
            /\ handle = "closed"
            /\ file = [exists |-> TRUE, content |-> result]
    /\ exc # "none" => ~Reported("success") /\ (pc = "done" => Reported("error"))

C10_Witness ==
    /\ pc = "done"
    /\ out = <<SuccessMsg>>
    /\ Len(result) > 0
    /\ file.content = result
    /\ handle = "closed"

====
